---- MODULE Spec2Model ----
(***************************************************************************)
(* c-structs: schema-driven binary layout (struct / array resolvers) and   *)
(* buffer-bound views.  The repository holds three implementations of the  *)
(* same API: src/index.js (tagged array descriptors), and two in           *)
(* src/index.ts (a class-based one with prototype accessors and lazily     *)
(* created vector windows, lines 281-434, and a closure-based one, lines   *)
(* 703-817).  The variable impl says which one a behaviour runs.           *)
(***************************************************************************)
EXTENDS Integers, Sequences, FiniteSets, TLC

VARIABLES impl, todo, descs, bufs, views, last, allocations, accesses

vars == <<impl, todo, descs, bufs, views, last, allocations, accesses>>

(***************************************************************************)
(* Bounds of the model.                                                    *)
(***************************************************************************)
MaxDescs == 3
MaxFields == 2
MaxArrayLen == 2
MaxCalls == 3

(***************************************************************************)
(* JavaScript numbers that appear as sizes, offsets and lengths: the       *)
(* naturals, NaN and undefined.  NaN and undefined are kept apart from the *)
(* naturals as negative codes; arithmetic goes through JsAdd and JsMul.    *)
(***************************************************************************)
NaN == -1
Undefined == -2

IsNum(x) == x >= 0

\* ToNumber(undefined) is NaN; NaN is absorbing under + and *.
JsAdd(a, b) == IF IsNum(a) /\ IsNum(b) THEN a + b ELSE NaN
JsMul(a, b) == IF IsNum(a) /\ IsNum(b) THEN a * b ELSE NaN

\* ToBoolean of a number: 0 and NaN are falsy (undefined as well).
Truthy(x) == x > 0

\* ToIndex, as new ArrayBuffer(n) applies it: NaN and undefined give 0.
ToIndex(x) == IF IsNum(x) THEN x ELSE 0

\* Number.isInteger(length) && length > 0
\* A check that lets length 0 through: Number.isInteger(length) && length >= 0.
IsPositiveInteger_OrZero(x) == IsNum(x)

IsPositiveInteger(x) == IsNum(x) /\ x > 0

(***************************************************************************)
(* The primitive registry.  index.ts and index.js differ in one entry:     *)
(* index.js gives float64 the size 4.                                      *)
(***************************************************************************)
Kinds == {"float32", "float64", "uint16", "uint32", "uint64", "int16", "int32", "int64"}

Prim(sz, ty, g, s) == [size |-> sz, arrayType |-> ty, getter |-> g, setter |-> s]

p_ts ==
  [float32 |-> Prim(4, "Float32Array", "getFloat32", "setFloat32"),
   float64 |-> Prim(8, "Float64Array", "getFloat64", "setFloat64"),
   uint16  |-> Prim(2, "Uint16Array", "getUint16", "setUint16"),
   uint32  |-> Prim(4, "Uint32Array", "getUint32", "setUint32"),
   uint64  |-> Prim(8, "BigUint64Array", "getBigUint64", "setBigUint64"),
   int16   |-> Prim(2, "Int16Array", "getInt16", "setInt16"),
   int32   |-> Prim(4, "Int32Array", "getInt32", "setInt32"),
   int64   |-> Prim(8, "BigInt64Array", "getBigInt64", "setBigInt64")]

p_js ==
  [float32 |-> Prim(4, "Float32Array", "getFloat32", "setFloat32"),
   float64 |-> Prim(4, "Float64Array", "getFloat64", "setFloat64"),
   uint16  |-> Prim(2, "Uint16Array", "getUint16", "setUint16"),
   uint32  |-> Prim(4, "Uint32Array", "getUint32", "setUint32"),
   uint64  |-> Prim(8, "BigUint64Array", "getBigUint64", "setBigUint64"),
   int16   |-> Prim(2, "Int16Array", "getInt16", "setInt16"),
   int32   |-> Prim(4, "Int32Array", "getInt32", "setInt32"),
   int64   |-> Prim(8, "BigInt64Array", "getBigInt64", "setBigInt64")]

Impls == {"js", "ctor", "closure"}

p(im) == IF im = "js" THEN p_js ELSE p_ts

\* The width the platform gives an element of each typed array and each
\* DataView accessor (BYTES_PER_ELEMENT); independent of the registry's size.
BytesPerElement(ty) ==
  CASE ty \in {"Uint16Array", "Int16Array"} -> 2
    [] ty \in {"Float32Array", "Uint32Array", "Int32Array"} -> 4
    [] OTHER -> 8

(***************************************************************************)
(* Values a schema maps a field name to.                                   *)
(*   prim : one registry entry, as c.float() returns it                    *)
(*   list : a JavaScript array of registry entries, as c.float3() returns  *)
(*   desc : an object returned by struct() or array()                      *)
(*   other: any other non-null value (a number, a string, {})              *)
(*   null : null or undefined                                              *)
(***************************************************************************)
NoDesc == [cls |-> "none"]
NoView == [cls |-> "none"]

PrimT(k) == [t |-> "prim", kind |-> k, kinds |-> <<>>, d |-> NoDesc]
ListT(ks) == [t |-> "list", kind |-> "", kinds |-> ks, d |-> NoDesc]
DescT(d) == [t |-> "desc", kind |-> "", kinds |-> <<>>, d |-> d]
OtherT == [t |-> "other", kind |-> "", kinds |-> <<>>, d |-> NoDesc]
NullT == [t |-> "null", kind |-> "", kinds |-> <<>>, d |-> NoDesc]

\* Field names, by position in the schema (Object.entries order).
FieldNames == <<"a", "b", "c", "d">>

(***************************************************************************)
(* Results of calls: err = "" when the call returns.                       *)
(***************************************************************************)
NoErr == ""
RangeError == "RangeError"
TypeError == "TypeError"
LengthError == "c.array: length must be a positive integer"
StructDescError == "c.array: first arg must be a StructDescriptor"
UnknownFieldError == "Unknown field type"

NoWindow == [made |-> FALSE, buffer |-> 0, byteOffset |-> 0, length |-> 0, arrayType |-> ""]

\* new Typed(buffer, byteOffset, length): the platform's checks.
TypedArrayError(ty, bufLen, byteOffset, length) ==
  IF ToIndex(byteOffset) % BytesPerElement(ty) # 0 THEN RangeError
  ELSE IF ToIndex(byteOffset) + ToIndex(length) * BytesPerElement(ty) > bufLen THEN RangeError
  ELSE NoErr

\* new Typed(buffer, 0, length): the base offset is forgotten.
Window_AtStart(ty, buf, byteOffset, length) ==
  [made |-> TRUE, buffer |-> buf, byteOffset |-> 0,
   length |-> ToIndex(length), arrayType |-> ty]

\* new Typed(buffer, byteOffset, length), when it does not throw.
Window(ty, buf, byteOffset, length) ==
  [made |-> TRUE, buffer |-> buf, byteOffset |-> ToIndex(byteOffset),
   length |-> ToIndex(length), arrayType |-> ty]

(***************************************************************************)
(* Descriptors.  A struct descriptor is {size, create}; create closes over *)
(* the resolved fields.  An array descriptor of index.ts is {size, create} *)
(* closing over structDesc and length (it has no length property); the one *)
(* of index.js is {kind: 'array', elemDesc, length, size} and has no       *)
(* create.  tagged tells the two apart.                                    *)
(***************************************************************************)
StructDesc(size, fields) == [cls |-> "struct", size |-> size, fields |-> fields]

ArrayDesc(im, structDesc, length) ==
  [cls |-> "array", tagged |-> (im = "js"), size |-> JsMul(structDesc.size, length),
   structDesc |-> structDesc, length |-> length]

\* typeof d.create === "function"
HasCreate(d) == d.cls = "struct" \/ (d.cls = "array" /\ ~d.tagged)

\* (type as any).length, type.kind and type.elemDesc of a descriptor object
LengthProp(d) == IF d.cls = "array" /\ d.tagged THEN d.length ELSE Undefined
IsTaggedArray(d) == d.cls = "array" /\ d.tagged

Field(kind, name, prim, length, offset, desc) ==
  [kind |-> kind, name |-> name, prim |-> prim, length |-> length,
   offset |-> offset, desc |-> desc]

\* c.array(structDesc, length)
array(im, structDesc, length) ==
  IF ~HasCreate(structDesc)
    THEN [err |-> StructDescError, desc |-> NoDesc]
  ELSE IF ~IsPositiveInteger(length)
    THEN [err |-> LengthError, desc |-> NoDesc]
  ELSE [err |-> NoErr, desc |-> ArrayDesc(im, structDesc, length)]

(***************************************************************************)
(* Views.  A view of a struct holds its buffer and one property per field; *)
(* a view of an array is a list of views.  buffer is an index into bufs,   *)
(* or Undefined where the object has no buffer property.                   *)
(***************************************************************************)
View(buf, base, props) ==
  [cls |-> "view", buffer |-> buf, baseOffset |-> base, props |-> props, elems |-> <<>>]

List(buf, base, elems) ==
  [cls |-> "list", buffer |-> buf, baseOffset |-> base, props |-> <<>>, elems |-> elems]

Property(f, abs, ta, value) ==
  [name |-> f.name, kind |-> f.kind, abs |-> abs, prim |-> f.prim,
   length |-> f.length, ta |-> ta, value |-> value]

Thrown(e) == [err |-> e, view |-> NoView]
Returned(v) == [err |-> NoErr, view |-> v]

RECURSIVE createIn(_, _, _, _, _)
RECURSIVE bindFields(_, _, _, _, _, _, _)
RECURSIVE createElems(_, _, _, _, _, _, _, _)

\* The loop of an array's create: elements i..length-1 at base + i * size.
createElems(im, structDesc, length, buf, bufLen, base, i, acc) ==
  IF i >= length THEN Returned(acc)
  ELSE LET r == createIn(im, structDesc, buf, bufLen, JsAdd(base, JsMul(i, structDesc.size)))
       IN IF r.err # NoErr THEN Thrown(r.err)
          ELSE createElems(im, structDesc, length, buf, bufLen, base, i + 1, Append(acc, r.view))

\* f.desc.create() with no arguments: the sub-view gets a buffer of its own.
bindStruct_OwnBuffer(im, f, buf, bufLen, abs) ==
  createIn(im, f.desc, buf + 1, ToIndex(f.desc.size), 0)

\* inst[f.name] = f.desc.create(buffer, abs), for a nested struct field.
bindStruct(im, f, buf, bufLen, abs) ==
  createIn(im, f.desc, buf, bufLen, abs)

\* The value bound to field f of a view at baseOffset base (one iteration
\* of create's loop over the fields).
bindField(im, f, buf, bufLen, base) ==
  LET abs == JsAdd(base, f.offset) IN
  CASE f.kind = "scalar" -> [err |-> NoErr, prop |-> Property(f, abs, NoWindow, NoView)]
    [] f.kind = "vector" ->
         IF im = "ctor"
           THEN [err |-> NoErr, prop |-> Property(f, abs, NoWindow, NoView)]
           ELSE LET ty == p(im)[f.prim].arrayType
                    e == TypedArrayError(ty, bufLen, abs, f.length)
                IN IF e # NoErr THEN [err |-> e, prop |-> Property(f, abs, NoWindow, NoView)]
                   ELSE [err |-> NoErr,
                         prop |-> Property(f, abs, Window(ty, buf, abs, f.length), NoView)]
    [] f.kind = "struct" ->
         LET r == bindStruct(im, f, buf, bufLen, abs)
         IN [err |-> r.err, prop |-> Property(f, abs, NoWindow, r.view)]
    [] OTHER ->
         IF im = "js"
           THEN LET r == createElems(im, f.desc, f.length, buf, bufLen, abs, 0, <<>>)
                IN [err |-> r.err,
                    prop |-> Property(f, abs, NoWindow,
                                      IF r.err = NoErr THEN List(Undefined, abs, r.view) ELSE NoView)]
           ELSE LET a == array(im, f.desc, f.length)
                    r == IF a.err # NoErr THEN Thrown(a.err)
                         ELSE createIn(im, a.desc, buf, bufLen, abs)
                IN [err |-> r.err, prop |-> Property(f, abs, NoWindow, r.view)]

\* The class-based implementation binds nested structs and arrays in the
\* constructor and leaves scalars and vectors to the prototype accessors;
\* the others bind every field in create's loop.  Either way the fields
\* are visited in order and the first error ends the call.
bindFields(im, fields, i, buf, bufLen, base, acc) ==
  IF i > Len(fields) THEN Returned(View(buf, base, acc))
  ELSE LET b == bindField(im, fields[i], buf, bufLen, base)
       IN IF b.err # NoErr THEN Thrown(b.err)
          ELSE bindFields(im, fields, i + 1, buf, bufLen, base, Append(acc, b.prop))

\* d.create(buffer, baseOffset) with both arguments given.
createIn(im, d, buf, bufLen, base) ==
  IF d.cls = "struct" THEN bindFields(im, d.fields, 1, buf, bufLen, base, <<>>)
  ELSE IF d.cls = "array" /\ ~d.tagged
    THEN LET r == createElems(im, d.structDesc, d.length, buf, bufLen, base, 0, <<>>)
         IN IF r.err # NoErr THEN r ELSE Returned(List(buf, base, r.view))
  ELSE Thrown(TypeError)

\* d.create(bufArg, baseArg): an argument that is Undefined takes its
\* default, new ArrayBuffer(size) and 0.  lens are the byte lengths of the
\* buffers that exist; a buffer allocated by the call gets the next index.
create(im, d, bufArg, baseArg, lens) ==
  IF ~HasCreate(d)
    THEN [err |-> TypeError, view |-> NoView, allocated |-> FALSE, byteLength |-> 0]
  ELSE LET fresh == (bufArg = Undefined)
           buf == IF fresh THEN Len(lens) + 1 ELSE bufArg
           bufLen == IF fresh THEN ToIndex(d.size) ELSE lens[bufArg]
           base == IF baseArg = Undefined THEN 0 ELSE baseArg
           r == createIn(im, d, buf, bufLen, base)
       IN [err |-> r.err, view |-> r.view, allocated |-> fresh, byteLength |-> bufLen]

(***************************************************************************)
(* The layout resolvers.  A resolver's result: err, the name of the field  *)
(* it failed on, the descriptor, and the number of buffers its calls of    *)
(* create allocated.                                                       *)
(***************************************************************************)
Resolved(fields, offset, probes) ==
  [err |-> NoErr, field |-> "", desc |-> StructDesc(offset, fields), allocated |-> probes]

Rejected(e, name, probes) ==
  [err |-> e, field |-> name, desc |-> NoDesc, allocated |-> probes]

RECURSIVE resolve_ts(_, _, _, _, _, _)

\* struct() of index.ts (both implementations resolve alike): the loop over
\* Object.entries(schema) from entry i on, with the running offset, the
\* fields so far and the buffers allocated so far.
resolve_ts(im, schema, i, offset, fields, probes) ==
  IF i > Len(schema) THEN Resolved(fields, offset, probes)
  ELSE
    LET type == schema[i]
        name == FieldNames[i]
        fieldOffset == offset
        probing == type.t = "desc" /\ Truthy(type.d.size) /\ HasCreate(type.d)
        probe == create(im, type.d, Undefined, Undefined, <<>>)
        probes2 == IF probing /\ probe.allocated THEN probes + 1 ELSE probes
    IN
    IF type.t = "list" THEN
      IF Len(type.kinds) = 0 THEN Rejected(TypeError, "", probes)
      ELSE LET elem == type.kinds[1]
           IN resolve_ts(im, schema, i + 1,
                 JsAdd(offset, JsMul(p(im)[elem].size, Len(type.kinds))),
                 Append(fields, Field("vector", name, elem, Len(type.kinds), fieldOffset, NoDesc)),
                 probes)
    ELSE IF type.t = "null" THEN Rejected(TypeError, "", probes)
    ELSE IF probing /\ probe.err # NoErr THEN Rejected(probe.err, "", probes2)
    ELSE IF probing /\ probe.view.cls = "list" THEN
      resolve_ts(im, schema, i + 1,
         JsAdd(offset, JsMul(type.d.size, LengthProp(type.d))),
         Append(fields, Field("array", name, "", LengthProp(type.d), fieldOffset, type.d)),
         probes2)
    ELSE IF type.t = "prim" THEN
      resolve_ts(im, schema, i + 1, JsAdd(offset, p(im)[type.kind].size),
         Append(fields, Field("scalar", name, type.kind, Undefined, fieldOffset, NoDesc)),
         probes2)
    ELSE IF type.t = "desc" /\ Truthy(type.d.size) /\ HasCreate(type.d) THEN
      resolve_ts(im, schema, i + 1, JsAdd(offset, type.d.size),
         Append(fields, Field("struct", name, "", Undefined, fieldOffset, type.d)),
         probes2)
    ELSE Rejected(UnknownFieldError, name, probes2)

RECURSIVE resolve_js(_, _, _, _, _)

\* struct() of index.js: an array descriptor is known by its kind tag.
resolve_js(im, schema, i, offset, fields) ==
  IF i > Len(schema) THEN Resolved(fields, offset, 0)
  ELSE
    LET type == schema[i]
        name == FieldNames[i]
        fieldOffset == offset
    IN
    IF type.t = "list" THEN
      IF Len(type.kinds) = 0 THEN Rejected(TypeError, "", 0)
      ELSE LET elem == type.kinds[1]
           IN resolve_js(im, schema, i + 1,
                 JsAdd(offset, JsMul(p(im)[elem].size, Len(type.kinds))),
                 Append(fields, Field("vector", name, elem, Len(type.kinds), fieldOffset, NoDesc)))
    ELSE IF type.t = "null" THEN Rejected(TypeError, "", 0)
    ELSE IF type.t = "desc" /\ IsTaggedArray(type.d) THEN
      resolve_js(im, schema, i + 1, JsAdd(offset, type.d.size),
         Append(fields, Field("array", name, "", type.d.length, fieldOffset, type.d.structDesc)))
    ELSE IF type.t = "prim" THEN
      resolve_js(im, schema, i + 1, JsAdd(offset, p(im)[type.kind].size),
         Append(fields, Field("scalar", name, type.kind, Undefined, fieldOffset, NoDesc)))
    ELSE IF type.t = "desc" /\ Truthy(type.d.size) /\ HasCreate(type.d) THEN
      resolve_js(im, schema, i + 1, JsAdd(offset, type.d.size),
         Append(fields, Field("struct", name, "", Undefined, fieldOffset, type.d)))
    ELSE Rejected(UnknownFieldError, name, 0)

\* c.struct(schema)
struct(im, schema) ==
  IF im = "js" THEN resolve_js(im, schema, 1, 0, <<>>)
  ELSE resolve_ts(im, schema, 1, 0, <<>>, 0)

(***************************************************************************)
(* JavaScript values written to and read from fields.  A number is a sign, *)
(* a magnitude (little-endian base-256 digits, no leading zero digit) and  *)
(* an optional half: -3.5 is [neg, <<3>>, half].  A bigint has no half.    *)
(* "bits" is a float whose value is not a multiple of one half below 2^30: *)
(* it is known by its bit pattern, kept in mag.                            *)
(***************************************************************************)
Number(neg, mag, half) == [t |-> "number", neg |-> neg, mag |-> mag, half |-> half]
BigInt(neg, mag) == [t |-> "bigint", neg |-> neg, mag |-> mag, half |-> FALSE]
NaNValue == [t |-> "nan", neg |-> FALSE, mag |-> <<>>, half |-> FALSE]
UndefinedValue == [t |-> "undefined", neg |-> FALSE, mag |-> <<>>, half |-> FALSE]
Bits(bytes) == [t |-> "bits", neg |-> FALSE, mag |-> bytes, half |-> FALSE]

RECURSIVE Digits(_)
Digits(n) == IF n = 0 THEN <<>> ELSE <<n % 256>> \o Digits(n \div 256)

RECURSIVE NatOf(_)
NatOf(ds) == IF ds = <<>> THEN 0 ELSE ds[1] + 256 * NatOf(Tail(ds))

RECURSIVE Strip(_)
Strip(ds) ==
  IF ds = <<>> THEN <<>>
  ELSE IF ds[Len(ds)] = 0 THEN Strip(SubSeq(ds, 1, Len(ds) - 1)) ELSE ds

\* The low w digits of ds.
Low(ds, w) == [i \in 1..w |-> IF i <= Len(ds) THEN ds[i] ELSE 0]

RECURSIVE Pow2(_)
Pow2(n) == IF n = 0 THEN 1 ELSE 2 * Pow2(n - 1)

RECURSIVE BitLen(_)
BitLen(n) == IF n = 0 THEN 0 ELSE 1 + BitLen(n \div 2)

RECURSIVE AddOne(_)
AddOne(ds) ==
  IF ds = <<>> THEN <<>>
  ELSE IF ds[1] = 255 THEN <<0>> \o AddOne(Tail(ds)) ELSE <<ds[1] + 1>> \o Tail(ds)

\* Two's complement negation within Len(ds) digits.
Negate(ds) == AddOne([i \in 1..Len(ds) |-> 255 - ds[i]])

Whole(n) == IF n < 0 THEN Number(TRUE, Digits(0 - n), FALSE) ELSE Number(FALSE, Digits(n), FALSE)
AndAHalf(n) == IF n < 0 THEN Number(TRUE, Digits(0 - n), TRUE) ELSE Number(FALSE, Digits(n), TRUE)

\* ToInt16, ToUint32, BigInt.asUintN(64, v), ...: the value truncated
\* toward zero, modulo 2^(8w), as w little-endian bytes.  NaN gives 0.
ToIntegerBytes(v, w) ==
  IF v.t \in {"nan", "undefined", "bits"} THEN [i \in 1..w |-> 0]
  ELSE IF v.neg THEN Negate(Low(v.mag, w)) ELSE Low(v.mag, w)

FromUnsigned(bytes, big) ==
  IF big THEN BigInt(FALSE, Strip(bytes)) ELSE Number(FALSE, Strip(bytes), FALSE)

FromSigned(bytes, big) ==
  IF bytes[Len(bytes)] >= 128
    THEN IF big THEN BigInt(TRUE, Strip(Negate(bytes)))
                ELSE Number(TRUE, Strip(Negate(bytes)), FALSE)
    ELSE FromUnsigned(bytes, big)

\* Math.fround(v) as four little-endian bytes, for v a multiple of one half
\* of magnitude below 2^30 (every number the model writes to a float field):
\* round to nearest, ties to even.
Float32Bytes(v) ==
  IF v.t \in {"nan", "undefined"} THEN <<0, 0, 192, 127>>
  ELSE IF v.t = "bits" THEN Low(v.mag, 4)
  ELSE
    LET M == 2 * NatOf(v.mag) + (IF v.half THEN 1 ELSE 0)
        L == BitLen(M)
        shift == L - 24
        q == M \div Pow2(shift)
        r == M % Pow2(shift)
        up == r > Pow2(shift - 1) \/ (r = Pow2(shift - 1) /\ q % 2 = 1)
        q2 == IF up THEN q + 1 ELSE q
        carry == L > 24 /\ q2 = Pow2(24)
        k == IF carry THEN L ELSE L - 1
        m == IF L <= 24 THEN (M - Pow2(k)) * Pow2(23 - k)
             ELSE IF carry THEN 0 ELSE q2 - Pow2(23)
        E == 126 + k
        s == IF v.neg THEN 128 ELSE 0
    IN IF M = 0 THEN <<0, 0, 0, s>>
       ELSE <<m % 256, (m \div 256) % 256, (E % 2) * 128 + m \div 65536, s + E \div 2>>

\* The number a float32 bit pattern stands for.
FromFloat32(b) ==
  LET neg == b[4] >= 128
      E == (b[4] % 128) * 2 + b[3] \div 128
      m == (b[3] % 128) * 65536 + b[2] * 256 + b[1]
      k == E - 126
      M == IF k <= 23 THEN Pow2(k) + m \div Pow2(23 - k) ELSE (Pow2(23) + m) * Pow2(k - 23)
  IN IF E = 0 /\ m = 0 THEN Number(neg, <<>>, FALSE)
     ELSE IF E = 255 /\ m # 0 THEN NaNValue
     ELSE IF k >= 0 /\ k <= 23 /\ m % Pow2(23 - k) = 0
       THEN Number(neg, Digits(M \div 2), M % 2 = 1)
     ELSE IF k > 23 /\ k <= 30 THEN Number(neg, Digits(M \div 2), FALSE)
     ELSE Bits(b)

\* v as a float64, eight little-endian bytes, for v a multiple of one half
\* of magnitude below 2^23 (exact: a double holds it).
Float64Bytes(v) ==
  IF v.t \in {"nan", "undefined"} THEN <<0, 0, 0, 0, 0, 0, 248, 127>>
  ELSE IF v.t = "bits" THEN Low(v.mag, 8)
  ELSE
    LET M == 2 * NatOf(v.mag) + (IF v.half THEN 1 ELSE 0)
        k == BitLen(M) - 1
        x == (M - Pow2(k)) * Pow2(24 - k)   \* the top 24 bits of the mantissa
        E == 1022 + k
        s == IF v.neg THEN 128 ELSE 0
    IN IF M = 0 THEN <<0, 0, 0, 0, 0, 0, 0, s>>
       ELSE <<0, 0, 0, (x % 16) * 16, (x \div 16) % 256, (x \div 4096) % 256,
              (E % 16) * 16 + x \div 1048576, s + E \div 16>>

FromFloat64(b) ==
  LET neg == b[8] >= 128
      E == (b[8] % 128) * 16 + b[7] \div 16
      x == (b[7] % 16) * 1048576 + b[6] * 4096 + b[5] * 16 + b[4] \div 16
      lowZero == b[1] = 0 /\ b[2] = 0 /\ b[3] = 0 /\ b[4] % 16 = 0
      k == E - 1022
      M == Pow2(k) + x \div Pow2(24 - k)
  IN IF E = 0 /\ x = 0 /\ lowZero THEN Number(neg, <<>>, FALSE)
     ELSE IF E = 2047 /\ ~(x = 0 /\ lowZero) THEN NaNValue
     ELSE IF lowZero /\ k >= 0 /\ k <= 24 /\ x % Pow2(24 - k) = 0
       THEN Number(neg, Digits(M \div 2), M % 2 = 1)
     ELSE Bits(b)

(***************************************************************************)
(* Field accessors.  A DataView accessor and a typed array element are as  *)
(* wide as the platform makes them (BytesPerElement), whatever size the    *)
(* registry states.  Scalars are read and written little-endian (the true  *)
(* argument); typed arrays use the host's byte order, little-endian on the *)
(* hosts that run this code.                                               *)
(***************************************************************************)
Width(im, prim) == BytesPerElement(p(im)[prim].arrayType)

IsBigKind(prim) == prim \in {"uint64", "int64"}

\* The bytes the setter of this kind stores for v, or the TypeError of
\* ToNumber(bigint) and of ToBigInt(number).
Encode(im, prim, v) ==
  IF IsBigKind(prim) # (v.t = "bigint") THEN [err |-> TypeError, bytes |-> <<>>]
  ELSE [err |-> NoErr,
        bytes |-> CASE prim = "float32" -> Float32Bytes(v)
                    [] prim = "float64" -> Float64Bytes(v)
                    [] OTHER -> ToIntegerBytes(v, Width(im, prim))]

\* The value the getter of this kind returns for these bytes.
Decode(prim, bytes) ==
  CASE prim = "float32" -> FromFloat32(bytes)
    [] prim = "float64" -> FromFloat64(bytes)
    [] prim \in {"uint16", "uint32", "uint64"} -> FromUnsigned(bytes, IsBigKind(prim))
    [] OTHER -> FromSigned(bytes, IsBigKind(prim))

BytesAt(bytes, at, w) == [i \in 1..w |-> bytes[at + i]]

StoreAt(bytes, at, new) ==
  [i \in 1..Len(bytes) |-> IF i > at /\ i <= at + Len(new) THEN new[i - at] ELSE bytes[i]]

\* view[getter](abs, true)
getScalar(im, prim, abs, bytes) ==
  IF ToIndex(abs) + Width(im, prim) > Len(bytes) THEN [err |-> RangeError, value |-> UndefinedValue]
  ELSE [err |-> NoErr, value |-> Decode(prim, BytesAt(bytes, ToIndex(abs), Width(im, prim)))]

\* The setter writes to a DataView over a copy of the buffer.
setScalar_OnCopy(im, prim, abs, v, bytes) ==
  [err |-> NoErr, bytes |-> bytes]

\* view[setter](abs, v, true): the value is converted before the range is
\* checked.
setScalar(im, prim, abs, v, bytes) ==
  LET e == Encode(im, prim, v) IN
  IF e.err # NoErr THEN [err |-> e.err, bytes |-> bytes]
  ELSE IF ToIndex(abs) + Width(im, prim) > Len(bytes) THEN [err |-> RangeError, bytes |-> bytes]
  ELSE [err |-> NoErr, bytes |-> StoreAt(bytes, ToIndex(abs), e.bytes)]

\* A getter that builds a window on every read: () => new Typed(...).
getVector_NewEachTime(im, prop, buf, bufLen) ==
  LET ty == p(im)[prop.prim].arrayType
      e == TypedArrayError(ty, bufLen, prop.abs, prop.length)
  IN IF e # NoErr THEN [err |-> e, ta |-> NoWindow, fresh |-> FALSE]
     ELSE [err |-> NoErr, ta |-> Window(ty, buf, prop.abs, prop.length), fresh |-> TRUE]

\* The getter of a vector field: the window made by create, or (class-based
\* implementation) made on first access and kept.  fresh tells whether the
\* call constructed a typed array.
getVector(im, prop, buf, bufLen) ==
  IF prop.ta.made THEN [err |-> NoErr, ta |-> prop.ta, fresh |-> FALSE]
  ELSE LET ty == p(im)[prop.prim].arrayType
           e == TypedArrayError(ty, bufLen, prop.abs, prop.length)
       IN IF e # NoErr THEN [err |-> e, ta |-> NoWindow, fresh |-> FALSE]
          ELSE [err |-> NoErr, ta |-> Window(ty, buf, prop.abs, prop.length), fresh |-> TRUE]

\* ta[i], for i below the window's length.
Element(im, prim, ta, i, bytes) ==
  Decode(prim, BytesAt(bytes, ta.byteOffset + i * Width(im, prim), Width(im, prim)))

\* arr[i] of a JavaScript array: undefined past its end.
Index(arr, i) == IF i < Len(arr) THEN arr[i + 1] ELSE UndefinedValue

RECURSIVE copyElements(_, _, _, _, _, _, _)

\* for (let i = 0; i < length; i++) ta[i] = arr[i]
copyElements(im, prim, ta, length, arr, i, bytes) ==
  IF i >= length THEN [err |-> NoErr, bytes |-> bytes]
  ELSE LET e == Encode(im, prim, Index(arr, i))
       IN IF e.err # NoErr THEN [err |-> e.err, bytes |-> bytes]
          ELSE copyElements(im, prim, ta, length, arr, i + 1,
                            StoreAt(bytes, ta.byteOffset + i * Width(im, prim), e.bytes))

\* A setter that copies the whole source: for (i < arr.length), each element
\* stored at its offset from the field.
setVector_WholeSource(im, prop, ta, arr, bytes) ==
  copyElements(im, prop.prim, ta, Len(arr), arr, 0, bytes)

\* The setter of a vector field; ta is what the getter returned.
setVector(im, prop, ta, arr, bytes) ==
  copyElements(im, prop.prim, ta, prop.length, arr, 0, bytes)

(***************************************************************************)
(* Walking a view.  A path leads from a root view to a property: property  *)
(* numbers through struct views, element numbers through lists.            *)
(***************************************************************************)
RECURSIVE Leaves(_)

\* The scalar and vector properties under view v, each with its path and
\* the buffer of the view that owns it.
Leaves(v) ==
  IF v.cls = "list"
    THEN UNION {{[l EXCEPT !.path = <<i>> \o l.path] : l \in Leaves(v.elems[i])}
                 : i \in 1..Len(v.elems)}
  ELSE IF v.cls = "view"
    THEN UNION {IF v.props[j].kind \in {"scalar", "vector"}
                  THEN {[path |-> <<j>>, prop |-> v.props[j], buffer |-> v.buffer]}
                  ELSE {[l EXCEPT !.path = <<j>> \o l.path] : l \in Leaves(v.props[j].value)}
                 : j \in 1..Len(v.props)}
  ELSE {}

RECURSIVE SubViews(_)

\* v and every view and list under it.
SubViews(v) ==
  IF v.cls = "list" THEN {v} \cup UNION {SubViews(v.elems[i]) : i \in 1..Len(v.elems)}
  ELSE IF v.cls = "view"
    THEN {v} \cup UNION {SubViews(v.props[j].value) : j \in 1..Len(v.props)}
  ELSE {}

RECURSIVE WithWindow(_, _, _)

\* v with the window ta kept on the vector property at path.
WithWindow(v, path, ta) ==
  IF v.cls = "list"
    THEN [v EXCEPT !.elems[path[1]] = WithWindow(@, Tail(path), ta)]
  ELSE IF Len(path) = 1
    THEN [v EXCEPT !.props[path[1]].ta = ta]
  ELSE [v EXCEPT !.props[path[1]].value = WithWindow(@, Tail(path), ta)]

(***************************************************************************)
(* State.                                                                  *)
(*   impl        which implementation runs                                 *)
(*   todo        the declarations the program has still to make            *)
(*   descs       the calls of struct() and array() made so far, in order,  *)
(*               each with its arguments and its outcome                   *)
(*   bufs        the ArrayBuffers the program holds, as byte sequences     *)
(*   views       what each call of create returned, in order (NoView for   *)
(*               a call that threw)                                        *)
(*   last        the last call of create or of a field accessor            *)
(*   allocations the number of ArrayBuffers allocated so far               *)
(*   accesses    the number of field accessor calls made so far            *)
(***************************************************************************)
StructCall(schema, r) ==
  [op |-> "struct", schema |-> schema, of |-> NoDesc, length |-> Undefined,
   err |-> r.err, field |-> r.field, desc |-> r.desc]

ArrayCall(structDesc, length, r) ==
  [op |-> "array", schema |-> <<>>, of |-> structDesc, length |-> length,
   err |-> r.err, field |-> "", desc |-> r.desc]

\* The descriptors the program holds.
Held == {descs[i].desc : i \in {j \in 1..Len(descs) : descs[j].err = NoErr}}

\* The scalar kinds the helpers of c hand out: index.js has float and uint.
HelperKinds(im) == IF im = "js" THEN {"float32", "uint32"} ELSE Kinds

LayoutKinds == {"float32", "uint16", "float64"}
LayoutLists == {<<"float32", "float32", "float32">>}
LayoutLengths == {0, MaxArrayLen}

LayoutTypes ==
  {PrimT(k) : k \in LayoutKinds \cap HelperKinds(impl)}
    \cup {ListT(ks) : ks \in LayoutLists}
    \cup {DescT(d) : d \in Held}
    \cup {OtherT, NullT}

Schemas(types, n) == UNION {[1..m -> types] : m \in 0..n}

NoCall ==
  [op |-> "", err |-> NoErr, d |-> NoDesc, bufArg |-> Undefined, baseArg |-> Undefined,
   view |-> NoView, byteLength |-> 0, root |-> 0, path |-> <<>>, value |-> <<>>]

InitLayout ==
  /\ impl \in Impls
  /\ todo = <<>>
  /\ descs = <<>>
  /\ bufs = <<>>
  /\ views = <<>>
  /\ last = NoCall
  /\ allocations = 0
  /\ accesses = 0

\* const D = c.struct(schema)
Struct(schema) ==
  /\ Len(descs) < MaxDescs
  /\ LET r == struct(impl, schema)
     IN /\ descs' = Append(descs, StructCall(schema, r))
        /\ allocations' = allocations + r.allocated
  /\ UNCHANGED <<impl, todo, bufs, views, last, accesses>>

\* const A = c.array(structDesc, length)
Array(structDesc, length) ==
  /\ Len(descs) < MaxDescs
  /\ descs' = Append(descs, ArrayCall(structDesc, length, array(impl, structDesc, length)))
  /\ UNCHANGED <<impl, todo, bufs, views, last, allocations, accesses>>

NextLayout ==
  \/ \E schema \in Schemas(LayoutTypes, MaxFields) : Struct(schema)
  \/ \E d \in Held, n \in LayoutLengths : Array(d, n)

SpecLayout == InitLayout /\ [][NextLayout]_vars

(***************************************************************************)
(* Properties of the layout, checked under SpecLayout.                     *)
(***************************************************************************)

\* The size the data model gives a field declared with this schema value:
\* the primitive's width, width x length, the nested descriptor's size,
\* element size x length.
DeclaredSize(type) ==
  CASE type.t = "prim" -> p(impl)[type.kind].size
    [] type.t = "list" -> p(impl)[type.kinds[1]].size * Len(type.kinds)
    [] type.t = "desc" /\ type.d.cls = "array" -> JsMul(type.d.structDesc.size, type.d.length)
    [] OTHER -> type.d.size

RECURSIVE SumOfSizes(_, _)
SumOfSizes(schema, n) ==
  IF n = 0 THEN 0 ELSE JsAdd(SumOfSizes(schema, n - 1), DeclaredSize(schema[n]))

Accepted == {i \in 1..Len(descs) : descs[i].op = "struct" /\ descs[i].err = NoErr}

HasArrayField(i) ==
  \E j \in 1..Len(descs[i].schema) :
    descs[i].schema[j].t = "desc" /\ descs[i].schema[j].d.cls = "array"

\* C1: in every descriptor struct() returned, the fields are those of the
\* schema in declaration order, the first at offset 0 and each later one at
\* the previous field's offset plus the previous field's size (no padding).
C1_OffsetsArePacked ==
  \A i \in Accepted :
    LET schema == descs[i].schema
        fields == descs[i].desc.fields
    IN /\ Len(fields) = Len(schema)
       /\ \A j \in 1..Len(fields) :
            /\ IsNum(fields[j].offset)
            /\ fields[j].offset = SumOfSizes(schema, j - 1)

\* C2: the size of every descriptor struct() returned, array-of-struct
\* fields included, is a number: the sum of the sizes of its fields.
C2_SizeIsSumOfFieldSizes ==
  \A i \in Accepted :
    /\ IsNum(descs[i].desc.size)
    /\ descs[i].desc.size = SumOfSizes(descs[i].schema, Len(descs[i].schema))

\* The same two statements for the schemas without an array-of-struct field.
LayoutHoldsWithoutArrayFields ==
  \A i \in Accepted :
    ~HasArrayField(i) =>
      LET schema == descs[i].schema
          fields == descs[i].desc.fields
      IN /\ Len(fields) = Len(schema)
         /\ \A j \in 1..Len(fields) : fields[j].offset = SumOfSizes(schema, j - 1)
         /\ descs[i].desc.size = SumOfSizes(schema, Len(schema))

\* ... and for index.js with them.
LayoutHoldsInJs ==
  impl = "js" => C1_OffsetsArePacked /\ C2_SizeIsSumOfFieldSizes

(***************************************************************************)
(* Programs: the declarations a behaviour of Spec makes before it creates  *)
(* views.  Each is a run of struct() and array() calls, as the tests and   *)
(* examples of the repository make them; a step names an earlier result by *)
(* its place in descs.  A call that throws ends the program.               *)
(***************************************************************************)
Float(n) == [t |-> "list", kind |-> "", kinds |-> [i \in 1..n |-> "float32"], ref |-> 0]
Scalar(k) == [t |-> "prim", kind |-> k, kinds |-> <<>>, ref |-> 0]
Ref(i) == [t |-> "desc", kind |-> "", kinds |-> <<>>, ref |-> i]

StructStep(schema) == [op |-> "struct", schema |-> schema, of |-> 0, length |-> 0]
ArrayStep(i, n) == [op |-> "array", schema |-> <<>>, of |-> i, length |-> n]

\* Item = struct({color: float3}); ItemArray = array(Item, 3)
ProgramItems == <<StructStep(<<Float(3)>>), ArrayStep(1, 3)>>

\* Color = struct({r: float, g: float, b: float}); Item = struct({color: Color})
ProgramNested ==
  <<StructStep(<<Scalar("float32"), Scalar("float32"), Scalar("float32")>>),
    StructStep(<<Ref(1)>>)>>

\* Item = struct({position: float3, materialIndex: uint});
\* Material = struct({first: Item, items: array(Item, 2)})
ProgramMaterial ==
  <<StructStep(<<Float(3), Scalar("uint32")>>), ArrayStep(1, 2),
    StructStep(<<Ref(1), Ref(2)>>)>>

\* Color = struct({r: float}); Vertex = struct({id: uint, color: Color});
\* Vertices = array(Vertex, 2)
ProgramVertices ==
  <<StructStep(<<Scalar("float32")>>),
    StructStep(<<Scalar("uint32"), Ref(1)>>), ArrayStep(2, 2)>>

\* Header = struct({tag: uint16, dir: float2}); Packet = struct({header: Header})
ProgramPacket ==
  <<StructStep(<<Scalar("uint16"), Float(2)>>), StructStep(<<Ref(1)>>)>>

\* index.js has no uint16 helper.
Programs(im) ==
  {ProgramItems, ProgramNested, ProgramMaterial, ProgramVertices}
    \cup (IF im = "js" THEN {} ELSE {ProgramPacket})

\* The schema value a step's entry stands for, given the results so far.
Instantiate(entry) ==
  CASE entry.t = "prim" -> PrimT(entry.kind)
    [] entry.t = "list" -> ListT(entry.kinds)
    [] OTHER -> DescT(descs[entry.ref].desc)

(***************************************************************************)
(* The program's calls on descriptors and views.                           *)
(***************************************************************************)
BaseArgs == {Undefined, 12}

ScalarValues == {Whole(1), AndAHalf(2)}
VectorSources == {<<Whole(1), Whole(0), Whole(0)>>, <<Whole(2), AndAHalf(3)>>}

Zeros(n) == [i \in 1..n |-> 0]

Lens == [i \in 1..Len(bufs) |-> Len(bufs[i])]

CreateCall(d, bufArg, baseArg, r) ==
  [op |-> "create", err |-> r.err, d |-> d, bufArg |-> bufArg, baseArg |-> baseArg,
   view |-> r.view, byteLength |-> r.byteLength, root |-> 0, path |-> <<>>, value |-> <<>>]

AccessCall(op, e, root, path, value) ==
  [op |-> op, err |-> e, d |-> NoDesc, bufArg |-> Undefined, baseArg |-> Undefined,
   view |-> NoView, byteLength |-> 0, root |-> root, path |-> path, value |-> value]

Init ==
  /\ impl \in Impls
  /\ todo \in Programs(impl)
  /\ descs = <<>>
  /\ bufs = <<>>
  /\ views = <<>>
  /\ last = NoCall
  /\ allocations = 0
  /\ accesses = 0

\* The program's next declaration.
Declare ==
  /\ todo # <<>>
  /\ LET step == Head(todo)
         schema == [i \in 1..Len(step.schema) |-> Instantiate(step.schema[i])]
         r == IF step.op = "struct" THEN struct(impl, schema)
              ELSE array(impl, descs[step.of].desc, step.length)
     IN /\ descs' = Append(descs, IF step.op = "struct" THEN StructCall(schema, r)
                                  ELSE ArrayCall(descs[step.of].desc, step.length, r))
        /\ allocations' = allocations + (IF step.op = "struct" THEN r.allocated ELSE 0)
        /\ todo' = IF r.err = NoErr THEN Tail(todo) ELSE <<>>
  /\ UNCHANGED <<impl, bufs, views, last, accesses>>

\* const v = d.create(bufArg, baseArg)
Create(d, bufArg, baseArg) ==
  /\ todo = <<>>
  /\ Len(views) + accesses < MaxCalls
  /\ LET r == create(impl, d, bufArg, baseArg, Lens)
     IN /\ last' = CreateCall(d, bufArg, baseArg, r)
        /\ allocations' = allocations + (IF r.allocated THEN 1 ELSE 0)
        /\ views' = Append(views, r.view)
        /\ bufs' = IF r.err = NoErr /\ r.allocated
                     THEN Append(bufs, Zeros(r.byteLength)) ELSE bufs
  /\ UNCHANGED <<impl, todo, descs, accesses>>

\* v.<path> = value, for a scalar field
SetScalar(root, leaf, value) ==
  /\ Len(views) + accesses < MaxCalls
  /\ leaf.prop.kind = "scalar"
  /\ LET r == setScalar(impl, leaf.prop.prim, leaf.prop.abs, value, bufs[leaf.buffer])
     IN /\ bufs' = [bufs EXCEPT ![leaf.buffer] = r.bytes]
        /\ last' = AccessCall("setScalar", r.err, root, leaf.path, <<value>>)
  /\ accesses' = accesses + 1
  /\ UNCHANGED <<impl, todo, descs, views, allocations>>

\* v.<path> = arr, for a vector field
SetVector(root, leaf, arr) ==
  /\ Len(views) + accesses < MaxCalls
  /\ leaf.prop.kind = "vector"
  /\ LET g == getVector(impl, leaf.prop, leaf.buffer, Len(bufs[leaf.buffer]))
         r == IF g.err # NoErr THEN [err |-> g.err, bytes |-> bufs[leaf.buffer]]
              ELSE setVector(impl, leaf.prop, g.ta, arr, bufs[g.ta.buffer])
     IN /\ bufs' = IF g.err # NoErr THEN bufs ELSE [bufs EXCEPT ![g.ta.buffer] = r.bytes]
        /\ views' = IF g.err # NoErr THEN views
                    ELSE [views EXCEPT ![root] = WithWindow(@, leaf.path, g.ta)]
        /\ last' = AccessCall("setVector", r.err, root, leaf.path, arr)
  /\ accesses' = accesses + 1
  /\ UNCHANGED <<impl, todo, descs, allocations>>

\* const ta = v.<path>, for a vector field
GetVector(root, leaf) ==
  /\ Len(views) + accesses < MaxCalls
  /\ leaf.prop.kind = "vector"
  /\ LET g == getVector(impl, leaf.prop, leaf.buffer, Len(bufs[leaf.buffer]))
     IN /\ views' = IF g.err # NoErr THEN views
                    ELSE [views EXCEPT ![root] = WithWindow(@, leaf.path, g.ta)]
        /\ last' = AccessCall("getVector", g.err, root, leaf.path, <<>>)
  /\ accesses' = accesses + 1
  /\ UNCHANGED <<impl, todo, descs, bufs, allocations>>

Next ==
  \/ Declare
  \/ \E d \in Held, bufArg \in {Undefined} \cup (1..Len(bufs)), baseArg \in BaseArgs :
       Create(d, bufArg, baseArg)
  \/ \E root \in 1..Len(views) : \E leaf \in Leaves(views[root]), value \in ScalarValues :
       SetScalar(root, leaf, value)
  \/ \E root \in 1..Len(views) : \E leaf \in Leaves(views[root]), arr \in VectorSources :
       SetVector(root, leaf, arr)
  \/ \E root \in 1..Len(views) : \E leaf \in Leaves(views[root]) :
       GetVector(root, leaf)

Spec == Init /\ [][Next]_vars

(***************************************************************************)
(* Properties of views, checked under Spec.                                *)
(***************************************************************************)
Roots == {r \in 1..Len(views) : views[r].cls # "none"}

LeafAt(root, path) == CHOOSE l \in Leaves(views[root]) : l.path = path

\* The bytes a field occupies in the layout: [abs, abs + FieldSize).
FieldSize(prop) ==
  IF prop.kind = "scalar" THEN p(impl)[prop.prim].size
  ELSE p(impl)[prop.prim].size * prop.length

\* What reading the field gives: a scalar's value, or the elements of the
\* vector's window, as a sequence; <<>> when the read throws.
Read(leaf) ==
  IF leaf.prop.kind = "scalar"
    THEN LET g == getScalar(impl, leaf.prop.prim, leaf.prop.abs, bufs[leaf.buffer])
         IN IF g.err # NoErr THEN <<>> ELSE <<g.value>>
    ELSE LET g == getVector(impl, leaf.prop, leaf.buffer, Len(bufs[leaf.buffer]))
         IN IF g.err # NoErr THEN <<>>
            ELSE [i \in 1..g.ta.length |->
                    Element(impl, leaf.prop.prim, g.ta, i - 1, bufs[g.ta.buffer])]

\* The call last made was d.create() or d.create(buffer, base) with room
\* for size bytes from base on (the caller's obligation).
CreatedWithRoom(size) ==
  /\ last.op = "create"
  /\ \/ last.bufArg = Undefined /\ last.baseArg = Undefined
     \/ /\ last.bufArg # Undefined
        /\ IsNum(size)
        /\ Len(bufs[last.bufArg]) >= ToIndex(last.baseArg) + size

Base == ToIndex(last.baseArg)

\* The buffer the last create call was to bind: the one given, or the new one.
BoundBuffer == IF last.bufArg = Undefined THEN Len(bufs) ELSE last.bufArg

\* The struct() calls that returned the descriptor d.
CallsOf(d) == {i \in Accepted : descs[i].desc = d}

\* C3: D.create() with no arguments returns a view whose buffer is exactly
\* D.size bytes long, for every descriptor D struct() or array() returned.
C3_CreateAllocatesSizeBytes ==
  (last.op = "create" /\ last.bufArg = Undefined /\ last.baseArg = Undefined) =>
    /\ last.err = NoErr
    /\ IsNum(last.d.size)
    /\ last.view.buffer = Len(bufs)
    /\ Len(bufs[last.view.buffer]) = last.d.size

\* C4: where field j of S was declared array(E, N), S.create binds it to
\* a sequence of exactly N views of E over the same buffer, the i-th at
\* base + offset + i * size(E).
C4_ArrayFieldIsBound ==
  \A c \in CallsOf(last.d) : \A j \in 1..Len(descs[c].schema) :
    LET type == descs[c].schema[j]
        E == type.d.structDesc
        offset == SumOfSizes(descs[c].schema, j - 1)
        size == SumOfSizes(descs[c].schema, Len(descs[c].schema))
    IN (type.t = "desc" /\ type.d.cls = "array" /\ CreatedWithRoom(size)) =>
         /\ last.err = NoErr
         /\ LET f == last.view.props[j].value
            IN /\ f.cls = "list"
               /\ Len(f.elems) = type.d.length
               /\ \A i \in 1..Len(f.elems) :
                    /\ f.elems[i].cls = "view"
                    /\ f.elems[i].buffer = BoundBuffer
                    /\ f.elems[i].baseOffset = Base + offset + (i - 1) * E.size
                    /\ Len(f.elems[i].props) = Len(E.fields)

\* C5: array(E, N), for a struct descriptor E and a positive integer N,
\* returns a descriptor of size size(E) x N that has a create, and its
\* create returns N views of E, the i-th at base + i * size(E), over the one
\* buffer the sequence exposes as its buffer.
C5_ArrayIsInstantiable ==
  /\ \A c \in 1..Len(descs) :
       (descs[c].op = "array" /\ descs[c].of.cls = "struct"
          /\ IsPositiveInteger(descs[c].length)) =>
         /\ descs[c].err = NoErr
         /\ descs[c].desc.size = JsMul(descs[c].of.size, descs[c].length)
         /\ HasCreate(descs[c].desc)
  /\ (last.d.cls = "array" /\ CreatedWithRoom(last.d.size)) =>
       /\ last.err = NoErr
       /\ last.view.cls = "list"
       /\ last.view.buffer = BoundBuffer
       /\ Len(last.view.elems) = last.d.length
       /\ \A i \in 1..Len(last.view.elems) :
            /\ last.view.elems[i].cls = "view"
            /\ last.view.elems[i].buffer = BoundBuffer
            /\ last.view.elems[i].baseOffset = Base + (i - 1) * last.d.structDesc.size

\* C6: where field j of S was declared as the struct descriptor T,
\* S.create binds it to a view of T over the same buffer at base + offset,
\* each scalar field g of which reads and writes the buffer at
\* base + offset + offset_T(g).
C6_NestedStructIsBound ==
  \A c \in CallsOf(last.d) : \A j \in 1..Len(descs[c].schema) :
    LET type == descs[c].schema[j]
        T == type.d
        offset == SumOfSizes(descs[c].schema, j - 1)
        size == SumOfSizes(descs[c].schema, Len(descs[c].schema))
    IN (type.t = "desc" /\ T.cls = "struct" /\ CreatedWithRoom(size)) =>
         /\ last.err = NoErr
         /\ LET f == last.view.props[j].value
            IN /\ f.cls = "view"
               /\ f.buffer = BoundBuffer
               /\ f.baseOffset = Base + offset
               /\ Len(f.props) = Len(T.fields)
               /\ \A g \in 1..Len(f.props) :
                    f.props[g].kind = "scalar" =>
                      f.props[g].abs = Base + offset + T.fields[g].offset

\* C7: a root view, every view and list under it, and every window made
\* for one of its vector fields are over the root's one buffer; creating
\* the sub-views allocated nothing, so every buffer is some root's.
C7_OneBufferUnderARoot ==
  /\ \A r \in Roots :
       /\ views[r].buffer \in 1..Len(bufs)
       /\ \A sv \in SubViews(views[r]) :
            sv.buffer # Undefined => sv.buffer = views[r].buffer
       /\ \A l \in Leaves(views[r]) :
            /\ l.buffer = views[r].buffer
            /\ l.prop.ta.made => l.prop.ta.buffer = views[r].buffer
  /\ \A b \in 1..Len(bufs) : \E r \in Roots : views[r].buffer = b

\* A root that is a list of views, each with a nested view.
C7_Witness ==
  \E r \in Roots :
    /\ views[r].cls = "list"
    /\ \E sv \in SubViews(views[r]) :
         /\ sv.cls = "view"
         /\ \E j \in 1..Len(sv.props) :
              sv.props[j].kind = "struct" /\ sv.props[j].value.cls = "view"
    /\ Cardinality(SubViews(views[r])) >= 5

\* What reading leaf gives when the buffers hold bs.
ReadIn(leaf, bs) ==
  IF leaf.prop.kind = "scalar"
    THEN LET g == getScalar(impl, leaf.prop.prim, leaf.prop.abs, bs[leaf.buffer])
         IN IF g.err # NoErr THEN <<>> ELSE <<g.value>>
    ELSE LET g == getVector(impl, leaf.prop, leaf.buffer, Len(bs[leaf.buffer]))
         IN IF g.err # NoErr THEN <<>>
            ELSE [i \in 1..g.ta.length |->
                    Element(impl, leaf.prop.prim, g.ta, i - 1, bs[g.ta.buffer])]

\* A step that assigns to a field changes no byte outside the field's
\* range [abs, abs + size) of the view's buffer, and no other buffer; what
\* fields with a disjoint range read is as before.
WriteStaysInRange ==
  (accesses' = accesses + 1 /\ last'.op \in {"setScalar", "setVector"}) =>
    LET L == LeafAt(last'.root, last'.path)
        lo == L.prop.abs
        hi == L.prop.abs + FieldSize(L.prop)
    IN /\ Len(bufs') = Len(bufs)
       /\ \A b \in 1..Len(bufs) :
            /\ Len(bufs'[b]) = Len(bufs[b])
            /\ \A i \in 1..Len(bufs[b]) :
                 bufs'[b][i] # bufs[b][i] => (b = L.buffer /\ lo < i /\ i <= hi)
       /\ \A r \in Roots : \A M \in Leaves(views[r]) :
            (\/ M.buffer # L.buffer
             \/ M.prop.abs + FieldSize(M.prop) <= lo
             \/ hi <= M.prop.abs) => ReadIn(M, bufs') = ReadIn(M, bufs)

\* C8: writing a field changes only the bytes of the field's own range
\* [abs, abs + size), size being the primitive's size times the field's
\* length; the fields next to it, before and after, read as they did.
C8_WritesStayInRange == [][WriteStaysInRange]_vars

\* items[1].color of an array of three {color: float3} has been assigned:
\* bytes [12, 24) changed, the rest of the 36 bytes is still zero.
C8_Witness ==
  /\ last.op = "setVector" /\ last.err = NoErr
  /\ last.root \in Roots
  /\ views[last.root].cls = "list"
  /\ Len(views[last.root].elems) = 3
  /\ last.path = <<2, 1>>
  /\ LET bytes == bufs[views[last.root].buffer]
     IN /\ Len(bytes) = 36
        /\ \E i \in 13..24 : bytes[i] # 0
        /\ \A i \in (1..12) \cup (25..36) : bytes[i] = 0

\* What a field of kind prim holds after v has been assigned to it.
Stored(prim, v) == Decode(prim, Encode(impl, prim, v).bytes)

\* Leaves that name the same bytes as the same field type.
Alias(L, M) ==
  /\ M.buffer = L.buffer
  /\ M.prop.abs = L.prop.abs
  /\ M.prop.kind = L.prop.kind
  /\ M.prop.prim = L.prop.prim
  /\ M.prop.length = L.prop.length

\* C9: after a value has been written through one view, reading the same
\* bytes as the same field type through any view over that buffer (the
\* root, a nested sub-view, an array element, another root) gives the
\* value written.
C9_AliasesReadTheLastWrite ==
  (last.op \in {"setScalar", "setVector"} /\ last.err = NoErr) =>
    LET L == LeafAt(last.root, last.path)
        written == IF L.prop.kind = "scalar"
                     THEN <<Stored(L.prop.prim, last.value[1])>>
                     ELSE [i \in 1..L.prop.length |->
                             Stored(L.prop.prim, Index(last.value, i - 1))]
    IN \A r \in Roots : \A M \in Leaves(views[r]) :
         Alias(L, M) => Read(M) = written

\* 2.5 was assigned to a uint32 field through one root view and a second
\* root view over the same buffer reads 2 at a field with the same bytes.
C9_Witness ==
  /\ last.op = "setScalar" /\ last.err = NoErr
  /\ last.value = <<AndAHalf(2)>>
  /\ \E r \in Roots \ {last.root} : \E M \in Leaves(views[r]) :
       /\ Alias(LeafAt(last.root, last.path), M)
       /\ M.prop.prim = "uint32"
       /\ Read(M) = <<Whole(2)>>

(***************************************************************************)
(* Integer scalar fields: a program that declares struct({a: <kind>}) for  *)
(* one integer kind, creates views of it and assigns to the field.         *)
(***************************************************************************)
IntegerKinds == {"uint16", "uint32", "uint64", "int16", "int32", "int64"}

\* 0, 1, -1, 2.5, -2.5, -0.5, 32768, 65543, -32769, 2^31, -(2^31 + 1),
\* 2^32 + 5, 2^63, 2^64 + 2^16 and the BigInt 5n.
IntegerValues ==
  {Whole(0), Whole(1), Whole(0 - 1), AndAHalf(2), AndAHalf(0 - 2),
   Number(TRUE, <<>>, TRUE), Whole(32768), Whole(65543), Whole(0 - 32769),
   Number(FALSE, <<0, 0, 0, 128>>, FALSE), Number(TRUE, <<1, 0, 0, 128>>, FALSE),
   Number(FALSE, <<5, 0, 0, 0, 1>>, FALSE),
   Number(FALSE, <<0, 0, 0, 0, 0, 0, 0, 128>>, FALSE),
   Number(FALSE, <<0, 0, 1, 0, 0, 0, 0, 0, 1>>, FALSE),
   BigInt(FALSE, <<5>>)}

InitScalar ==
  /\ impl \in Impls
  /\ todo \in {<<StructStep(<<Scalar(k)>>)>> : k \in IntegerKinds \cap HelperKinds(impl)}
  /\ descs = <<>>
  /\ bufs = <<>>
  /\ views = <<>>
  /\ last = NoCall
  /\ allocations = 0
  /\ accesses = 0

NextScalar ==
  \/ Declare
  \/ \E d \in Held : Create(d, Undefined, Undefined)
  \/ \E root \in 1..Len(views) : \E leaf \in Leaves(views[root]), value \in IntegerValues :
       SetScalar(root, leaf, value)

SpecScalar == InitScalar /\ [][NextScalar]_vars

\* v truncated toward zero and wrapped modulo 2^16, by arithmetic on the
\* two low bytes of its magnitude.
Wrapped16(v, signed) ==
  LET low == Low(v.mag, 2)
      m == low[1] + 256 * low[2]
      u == IF v.neg THEN (65536 - m) % 65536 ELSE m
  IN IF signed /\ u >= 32768 THEN Whole(u - 65536) ELSE Whole(u)

\* v truncated toward zero and wrapped modulo 2^width, two's complement
\* for the signed kinds.
Wrapped(prim, v) ==
  LET signed == prim \in {"int16", "int32", "int64"}
      w == Width(impl, prim)
  IN IF w = 2 THEN Wrapped16(v, signed)
     ELSE IF signed THEN FromSigned(ToIntegerBytes(v, w), FALSE)
     ELSE FromUnsigned(ToIntegerBytes(v, w), FALSE)

\* The same number, be it a Number or a BigInt.
SameNumber(x, y) == x.neg = y.neg /\ x.mag = y.mag /\ x.half = y.half

\* The last call assigned a number to an integer field of one of kinds.
AssignedNumberTo(kinds) ==
  /\ last.op = "setScalar"
  /\ last.value[1].t = "number"
  /\ LeafAt(last.root, last.path).prop.prim \in kinds

\* The assignment raised nothing and the field reads the wrapped value.
ReadsBackWrapped ==
  LET L == LeafAt(last.root, last.path)
  IN /\ last.err = NoErr
     /\ Read(L) # <<>>
     /\ SameNumber(Read(L)[1], Wrapped(L.prop.prim, last.value[1]))

\* C10: assigning a number v to a scalar field of any integer kind (16, 32
\* or 64 bits, signed or unsigned) raises no error, and the field then
\* reads v truncated toward zero and wrapped modulo 2^width, two's
\* complement for the signed kinds.
C10_IntegerAssignmentWraps ==
  AssignedNumberTo(IntegerKinds) => ReadsBackWrapped

\* The 16- and 32-bit kinds wrap as stated.
IntegerAssignmentWrapsBelow64Bits ==
  AssignedNumberTo(IntegerKinds \ {"uint64", "int64"}) => ReadsBackWrapped

\* -32769 assigned to an int16 field reads back 32767.
WrapsBelow64BitsWitness ==
  /\ AssignedNumberTo({"int16"})
  /\ last.value[1] = Whole(0 - 32769)
  /\ Read(LeafAt(last.root, last.path)) = <<Whole(32767)>>

\* A 64-bit field takes a BigInt and reads it back.
BigIntAssignmentHolds ==
  (last.op = "setScalar" /\ last.value[1].t = "bigint"
     /\ LeafAt(last.root, last.path).prop.prim \in {"uint64", "int64"}) =>
    /\ last.err = NoErr
    /\ Read(LeafAt(last.root, last.path)) = <<last.value[1]>>

(***************************************************************************)
(* Vector windows.                                                         *)
(***************************************************************************)

\* The step is a read of, or an assignment to, a vector field.
VectorAccess == accesses' = accesses + 1 /\ last'.op \in {"getVector", "setVector"}

\* A window a view holds stays the view's window in every step; an access
\* to a field that has its window constructs none and uses that one; an
\* access that makes the window makes it over the view's buffer at the
\* field's offset, of the field's length, and the view keeps it.
WindowIsKept ==
  /\ \A r \in Roots : \A l \in Leaves(views[r]) :
       l.prop.ta.made =>
         \E m \in Leaves(views'[r]) : m.path = l.path /\ m.prop.ta = l.prop.ta
  /\ VectorAccess =>
       LET L == LeafAt(last'.root, last'.path)
           g == getVector(impl, L.prop, L.buffer, Len(bufs[L.buffer]))
       IN /\ L.prop.ta.made => (g.err = NoErr /\ ~g.fresh /\ g.ta = L.prop.ta)
          /\ g.err = NoErr =>
               /\ g.ta.buffer = L.buffer
               /\ g.ta.byteOffset = L.prop.abs
               /\ g.ta.length = L.prop.length
               /\ \E m \in Leaves(views'[last'.root]) :
                    m.path = L.path /\ m.prop.ta = g.ta

\* C11: every read of a vector field of a view returns the same window:
\* it is made at most once per view, neither a read nor an assignment
\* replaces it, and it is over the view's buffer, so that what was written
\* through it is there on the next read.
C11_WindowIsMadeOnce == [][WindowIsKept]_vars

\* The class-based implementation: a vector field was assigned (its window
\* made on that access) and then read again; it is the only window there
\* is, and the read finds the element written.
C11_Witness ==
  /\ impl = "ctor"
  /\ last.op = "getVector" /\ last.err = NoErr
  /\ accesses = 2
  /\ last.root \in Roots
  /\ LET L == LeafAt(last.root, last.path)
     IN /\ L.prop.ta.made
        /\ \A r \in Roots : \A l \in Leaves(views[r]) :
             l.prop.ta.made => (r = last.root /\ l.path = last.path)
        /\ Read(L)[1] \in {Whole(1), Whole(2)}

(***************************************************************************)
(* Rejected schemas.                                                       *)
(***************************************************************************)

\* The fields of a schema whose value is no primitive, no list of
\* primitives and no descriptor.
Offending(schema) == {i \in 1..Len(schema) : schema[i].t \in {"other", "null"}}

StructCalls == {i \in 1..Len(descs) : descs[i].op = "struct"}

\* C12: struct(schema) with a field value that is none of primitive, vector,
\* struct descriptor and array descriptor raises an error that names such a
\* field, and returns no descriptor.
C12_UnknownFieldIsNamed ==
  \A i \in StructCalls :
    Offending(descs[i].schema) # {} =>
      /\ descs[i].err # NoErr
      /\ descs[i].desc = NoDesc
      /\ \E j \in Offending(descs[i].schema) : descs[i].field = FieldNames[j]

\* Where no field value is null or undefined, the error is the one that
\* names the field.
UnknownFieldIsNamedUnlessNull ==
  \A i \in StructCalls :
    LET schema == descs[i].schema
    IN (Offending(schema) # {} /\ \A j \in 1..Len(schema) : schema[j].t \in {"prim", "list", "other"}) =>
         /\ descs[i].err = UnknownFieldError
         /\ descs[i].desc = NoDesc
         /\ \E j \in Offending(schema) : descs[i].field = FieldNames[j]

\* Every schema with an offending field is rejected, named or not.
OffendingSchemaIsRejected ==
  \A i \in StructCalls :
    Offending(descs[i].schema) # {} => (descs[i].err # NoErr /\ descs[i].desc = NoDesc)

(***************************************************************************)
(* Lengths: schemas with vectors of every length from 0 on, arrays of      *)
(* every length, a number or not.                                          *)
(***************************************************************************)

LengthLists == {<<>>, <<"float32", "float32">>}
Lengths == {Undefined, NaN, 0, MaxArrayLen}

InitLengths == InitLayout

NextLengths ==
  \/ \E schema \in Schemas({ListT(ks) : ks \in LengthLists}, MaxFields) : Struct(schema)
  \/ \E d \in Held, n \in Lengths : Array(d, n)

SpecLengths == InitLengths /\ [][NextLengths]_vars

\* The schema has a vector field of no elements.
HasEmptyVector(schema) ==
  \E j \in 1..Len(schema) : schema[j].t = "list" /\ Len(schema[j].kinds) = 0

\* C13: array(E, N) with N not a positive whole number raises and returns
\* no descriptor; struct() with a vector field of length 0 raises and
\* returns no descriptor, so that no accepted struct has a vector field of
\* length 0 and no accepted array a length below 1.
C13_LengthIsChecked ==
  \A i \in 1..Len(descs) :
    LET call == descs[i]
    IN /\ (call.op = "array" /\ call.length < 1) =>
            (call.err # NoErr /\ call.desc = NoDesc)
       /\ (call.op = "struct" /\ HasEmptyVector(call.schema)) =>
            (call.err # NoErr /\ call.desc = NoDesc)
       /\ (call.op = "struct" /\ call.err = NoErr) =>
            \A j \in 1..Len(call.desc.fields) :
              call.desc.fields[j].kind = "vector" => call.desc.fields[j].length >= 1
       /\ (call.op = "array" /\ call.err = NoErr) => call.length >= 1

\* An array of length 0 and a vector of length 0 were both rejected, next
\* to a struct that was accepted.
C13_Witness ==
  /\ \E i \in 1..Len(descs) :
       descs[i].op = "array" /\ descs[i].length = 0 /\ descs[i].err = LengthError
  /\ \E i \in 1..Len(descs) :
       descs[i].op = "struct" /\ HasEmptyVector(descs[i].schema) /\ descs[i].err # NoErr
  /\ \E i \in 1..Len(descs) :
       descs[i].op = "struct" /\ descs[i].err = NoErr /\ Len(descs[i].desc.fields) > 0

(***************************************************************************)
(* Widths of the primitive kinds.                                          *)
(***************************************************************************)

\* The number of bits a kind is named after.
BitWidth(k) ==
  CASE k \in {"uint16", "int16"} -> 16
    [] k \in {"float32", "uint32", "int32"} -> 32
    [] k \in {"float64", "uint64", "int64"} -> 64

\* The bytes field j of a descriptor occupies: up to the next field, or to
\* the end of the struct.
Occupied(d, j) ==
  IF j < Len(d.fields) THEN d.fields[j + 1].offset - d.fields[j].offset
  ELSE d.size - d.fields[j].offset

ScalarFieldsAreAsWide ==
  \A i \in Accepted :
    LET d == descs[i].desc
    IN \A j \in 1..Len(d.fields) :
         (d.fields[j].kind = "scalar" /\ IsNum(d.size) /\ IsNum(d.fields[j].offset)
            /\ (j < Len(d.fields) => IsNum(d.fields[j + 1].offset))) =>
           Occupied(d, j) = BitWidth(d.fields[j].prim) \div 8

\* C14: the registry gives every kind a size of its bit width divided by 8,
\* and a scalar field of a kind occupies that many bytes of the layout.
C14_SizeIsBitWidthOver8 ==
  /\ \A k \in Kinds : p(impl)[k].size = BitWidth(k) \div 8
  /\ ScalarFieldsAreAsWide

\* The registry of index.ts is as wide as the kinds say, and in all three
\* implementations a scalar field occupies the size its kind has in the
\* registry.
SizeIsBitWidthOver8InTs ==
  /\ impl # "js" => \A k \in Kinds : p(impl)[k].size = BitWidth(k) \div 8
  /\ ScalarFieldsAreAsWide

(***************************************************************************)
(* What struct() leaves alone.                                             *)
(***************************************************************************)

\* The step is a call of c.struct.
IsStructCall == Len(descs') = Len(descs) + 1 /\ descs'[Len(descs')].op = "struct"

\* C15: struct(schema) calls no create of a descriptor in the schema: no
\* buffer is allocated and no view is made during the call.
C15_StructAllocatesNothing ==
  [][IsStructCall => (allocations' = allocations /\ views' = views /\ bufs' = bufs)]_vars

\* index.js tells an array descriptor by its tag and allocates nothing.
StructAllocatesNothingInJs ==
  [][(IsStructCall /\ impl = "js") => allocations' = allocations]_vars

\* In index.ts a call allocates one buffer for each descriptor among the
\* fields it got to, and none when the schema holds no descriptor.
StructAllocatesPerDescriptorInTs ==
  [][(IsStructCall /\ impl # "js") =>
       LET call == descs'[Len(descs')]
           n == Cardinality({j \in 1..Len(call.schema) : call.schema[j].t = "desc"})
       IN /\ allocations' - allocations <= n
          /\ n = 0 => allocations' = allocations]_vars

(***************************************************************************)
(* create without a buffer.                                                *)
(***************************************************************************)

\* The view the last call made has base offset 0 and all its fields within
\* the bytes of the buffer the call allocated.
LiesInFreshBuffer ==
  /\ last.err = NoErr
  /\ last.view.baseOffset = 0
  /\ \A leaf \in Leaves(last.view) :
       leaf.prop.abs + FieldSize(leaf.prop) <= last.byteLength

\* C16: create without a buffer, whatever base offset it is given, returns
\* a view at base offset 0 of the buffer it allocates, with every field
\* inside that buffer.
C16_FreshBufferIsBoundAtZero ==
  (last.op = "create" /\ last.bufArg = Undefined /\ last.baseArg # Undefined) =>
    LiesInFreshBuffer

\* Without a buffer and without a base offset, the view a create returns
\* is at base offset 0 and inside the buffer.
FreshBufferIsBoundAtZeroByDefault ==
  (last.op = "create" /\ last.bufArg = Undefined /\ last.baseArg = Undefined
     /\ last.err = NoErr) =>
    LiesInFreshBuffer

\* With a base offset and no buffer, no create returns a view that lies in
\* the buffer it allocated.
BaseOffsetLeavesTheFreshBuffer ==
  (last.op = "create" /\ last.bufArg = Undefined /\ last.baseArg # Undefined
     /\ Leaves(last.view) # {}) =>
    ~LiesInFreshBuffer

(***************************************************************************)
(* Vector assignment: one struct with a float3 and a uint2 field, and      *)
(* sources no shorter than the fields.                                     *)
(***************************************************************************)

Uint(n) == [t |-> "list", kind |-> "", kinds |-> [i \in 1..n |-> "uint32"], ref |-> 0]

\* Item = struct({position: float3, cell: uint2})
ProgramVectors == <<StructStep(<<Float(3), Uint(2)>>)>>

\* [1, 0, 0], [2, 3.5, -1, 7], [0.5, 65543, 1, 9, 9]
LongSources ==
  {<<Whole(1), Whole(0), Whole(0)>>,
   <<Whole(2), AndAHalf(3), Whole(0 - 1), Whole(7)>>,
   <<Number(FALSE, <<>>, TRUE), Whole(65543), Whole(1), Whole(9), Whole(9)>>}

InitVector ==
  /\ impl \in Impls
  /\ todo = ProgramVectors
  /\ descs = <<>>
  /\ bufs = <<>>
  /\ views = <<>>
  /\ last = NoCall
  /\ allocations = 0
  /\ accesses = 0

NextVector ==
  \/ Declare
  \/ \E d \in Held : Create(d, Undefined, Undefined)
  \/ \E root \in 1..Len(views) : \E leaf \in Leaves(views[root]), arr \in LongSources :
       SetVector(root, leaf, arr)
  \/ \E root \in 1..Len(views) : \E leaf \in Leaves(views[root]) :
       GetVector(root, leaf)

SpecVector == InitVector /\ [][NextVector]_vars

\* The step assigns a source of at least the field's length to a vector
\* field.
VectorAssigned ==
  /\ accesses' = accesses + 1
  /\ last'.op = "setVector"
  /\ Len(last'.value) >= LeafAt(last'.root, last'.path).prop.length

\* After the assignment the window holds the first length elements of the
\* source, each as its element kind stores it; no byte outside the window
\* and no other buffer has changed; and the view has changed in nothing but
\* the window it holds.
CopiedElementwise ==
  LET L == LeafAt(last'.root, last'.path)
      arr == last'.value
      n == L.prop.length
      from == L.prop.abs
      to == L.prop.abs + n * p(impl)[L.prop.prim].size
      M == CHOOSE m \in Leaves(views'[last'.root]) : m.path = L.path
  IN /\ last'.err = NoErr
     /\ M.prop.ta.made
     /\ ReadIn(M, bufs') = [i \in 1..n |-> Stored(L.prop.prim, arr[i])]
     /\ \A k \in 1..Len(bufs[L.buffer]) :
          (k <= from \/ k > to) => bufs'[L.buffer][k] = bufs[L.buffer][k]
     /\ \A b \in 1..Len(bufs) : b # L.buffer => bufs'[b] = bufs[b]
     /\ views' = [views EXCEPT ![last'.root] = WithWindow(@, L.path, M.prop.ta)]

\* C17: assigning a source of at least length elements to a vector field
\* copies its first length elements, converted to the element kind, into
\* the field's window; the elements from length on are ignored and the
\* view keeps nothing of the source.
C17_VectorIsCopiedElementwise == [][VectorAssigned => CopiedElementwise]_vars

\* [2, 3.5, -1, 7] was assigned to the uint2 field after [0.5, 65543, 1, 9, 9]
\* to the float3 field before it: the one reads [2, 3], the other still
\* [0.5, 65543, 1].
C17_Witness ==
  /\ last.op = "setVector" /\ last.err = NoErr
  /\ last.value = <<Whole(2), AndAHalf(3), Whole(0 - 1), Whole(7)>>
  /\ last.root \in Roots
  /\ LET L == LeafAt(last.root, last.path)
     IN /\ L.prop.prim = "uint32" /\ L.prop.length = 2
        /\ Read(L) = <<Whole(2), Whole(3)>>
        /\ \E F \in Leaves(views[last.root]) :
             /\ F.prop.prim = "float32" /\ F.prop.length = 3
             /\ Read(F) = <<Number(FALSE, <<>>, TRUE), Whole(65543), Whole(1)>>

(***************************************************************************)
(* Vector fields at offsets that are no multiple of the element size.      *)
(***************************************************************************)

RECURSIVE HasUnalignedVector(_, _)

\* Descriptor d, bound at base, has a vector field, its own or a nested
\* struct's, at an offset that is no multiple of the element size.
HasUnalignedVector(d, base) ==
  /\ d.cls = "struct"
  /\ IsNum(d.size)
  /\ \E j \in 1..Len(d.fields) :
       LET f == d.fields[j]
       IN \/ f.kind = "vector" /\ (base + f.offset) % (BitWidth(f.prim) \div 8) # 0
          \/ f.kind = "struct" /\ HasUnalignedVector(f.desc, base + f.offset)

\* The leaf is a vector field at such an offset.
Unaligned(leaf) ==
  leaf.prop.kind = "vector" /\ leaf.prop.abs % (BitWidth(leaf.prop.prim) \div 8) # 0

\* The last call read or assigned a vector field of a view at base offset 0.
VectorAccessed ==
  /\ last.op \in {"getVector", "setVector"}
  /\ last.root \in Roots
  /\ views[last.root].baseOffset = 0

\* C18: for a schema with a vector field at an offset that is no multiple
\* of its element size, create on a fresh buffer returns a view, and a read
\* or an assignment of the field goes through a window of length elements
\* at that offset.
C18_UnalignedVectorIsWindowed ==
  /\ (last.op = "create" /\ last.bufArg = Undefined /\ last.baseArg = Undefined
        /\ HasUnalignedVector(last.d, 0)) =>
       (last.err = NoErr /\ last.view.cls = "view")
  /\ (VectorAccessed /\ Unaligned(LeafAt(last.root, last.path))) =>
       LET L == LeafAt(last.root, last.path)
       IN /\ last.err = NoErr
          /\ L.prop.ta.made
          /\ L.prop.ta.byteOffset = L.prop.abs
          /\ L.prop.ta.length = L.prop.length

\* A vector field at a multiple of its element size, in a view at base
\* offset 0 of a buffer that has room for it, is read and assigned without
\* an error through a window of length elements at its offset.
AlignedVectorIsWindowed ==
  (VectorAccessed /\ ~Unaligned(LeafAt(last.root, last.path))) =>
    LET L == LeafAt(last.root, last.path)
    IN /\ L.prop.abs + FieldSize(L.prop) <= Len(bufs[L.buffer]) => last.err = NoErr
       /\ last.err = NoErr =>
            /\ L.prop.ta.made
            /\ L.prop.ta.byteOffset = L.prop.abs
            /\ L.prop.ta.length = L.prop.length

\* No window is ever made at an offset that is no multiple of the element
\* size: every such create or access ends in a RangeError.
UnalignedVectorIsRefused ==
  /\ \A r \in Roots : \A l \in Leaves(views[r]) : Unaligned(l) => ~l.prop.ta.made
  /\ (last.op = "create" /\ last.bufArg = Undefined /\ last.baseArg = Undefined
        /\ HasUnalignedVector(last.d, 0) /\ impl # "ctor") =>
       last.err = RangeError
  /\ (VectorAccessed /\ Unaligned(LeafAt(last.root, last.path))) =>
       last.err = RangeError

====
